---- MODULE Spec2Model ----
(***************************************************************************)
(* Model of the signal-graph synthesiser: the stream kinds of src/src/fm.rs *)
(* and the node graph application of src/src/app.rs (graph evaluation with  *)
(* its outputs cache, the update handler, the playback sink).               *)
(*                                                                         *)
(* Every node of the graph has exactly one output port, "Stream", so an     *)
(* OutputId is identified with the NodeId of the node that owns it.  An     *)
(* InputId is the pair <<node, port name>>.                                 *)
(*                                                                         *)
(* f32 scalars are kept symbolic: frequencies are drawn from a small set of *)
(* numbers, a mix ratio is stored in hundredths, and a sample is a term     *)
(* <<tag, ...>> that records the formula and the operands that produce it.  *)
(***************************************************************************)
EXTENDS FiniteSets, Integers, Sequences, TLC

(***************************************************************************)
(* Bounds of the model.                                                    *)
(***************************************************************************)
MaxNodes == 3
MaxIds == 2
MaxEdges == 2
MaxPulls == 1
MaxOps == 5
MaxCalls == 9

\* The u32 sample counters count modulo 2^32; the model counts modulo a
\* small number so that a run of next() calls reaches the wrap.
CounterModulus == 8

NodeIds == 1..MaxNodes
MaxDepth == MaxNodes + 2

(***************************************************************************)
(* Program constants.                                                      *)
(***************************************************************************)
SineTemplateFrequency == 0
SineDefaultFrequency == 440
ModulatorDefaultFrequency == 0
MixDefaultP == 50
PerlinDefaultScale == 100
SampleRate == 44100
\* Envelope::new: a 1.0, ad 0.3 s, dd 0.3 s, s 0.6, sd 2.0 s, rd 1.0 s.
EnvelopeDefaultA == 100
EnvelopeDefaultAd == (3 * SampleRate) \div 10
EnvelopeDefaultDd == (3 * SampleRate) \div 10
EnvelopeDefaultS == 60
EnvelopeDefaultSd == 2 * SampleRate
EnvelopeDefaultRd == 1 * SampleRate

\* Values the user drags an inline constant to (any f32 can be entered).
EditedFrequency == SineDefaultFrequency \div 2
EditedP == MixDefaultP \div 2

Kinds == {"SineWave", "ModulatedSineWave", "Mix", "Silence", "Empty"}
PortNames == {"Frequency", "Modulation", "p", "A", "B"}

(***************************************************************************)
(* fm::Stream values.  One record shape for all kinds; a field a kind does  *)
(* not have keeps its neutral value.  subs holds the boxed sub-streams.     *)
(***************************************************************************)
\* The ADSR fields of an Envelope: levels in hundredths, durations in
\* samples (seconds times sample_rate).
EnvelopeParams(a, ad, dd, s, sd, rd) ==
    [a |-> a, ad |-> ad, dd |-> dd, s |-> s, sd |-> sd, rd |-> rd]

NoEnvelope == EnvelopeParams(0, 0, 0, 0, 0, 0)

\* val is Const.val and Perlin.scale (hundredths).
MkStream(kind, frequency, p, subs) ==
    [kind |-> kind, frequency |-> frequency, current_sample |-> 0,
     acc |-> <<>>, p |-> p, subs |-> subs, val |-> 0, env |-> NoEnvelope]

EmptyNew == MkStream("Empty", 0, 0, <<>>)
SquareWaveNew == MkStream("SquareWave", 0, 0, <<>>)
TriangleWaveNew == MkStream("TriangleWave", 0, 0, <<>>)
SawtoothWaveNew == MkStream("SawtoothWave", 0, 0, <<>>)
ConstNew == MkStream("Const", 0, 0, <<>>)
PerlinNew == [MkStream("Perlin", 0, 0, <<>>) EXCEPT !.val = PerlinDefaultScale]
WhiteNoiseNew == MkStream("WhiteNoise", 0, 0, <<>>)
AddNew == MkStream("Add", 0, 0, <<EmptyNew, EmptyNew>>)
MultiplyNew == MkStream("Multiply", 0, 0, <<EmptyNew, EmptyNew>>)
EnvelopeNew ==
    [MkStream("Envelope", 0, 0, <<EmptyNew>>) EXCEPT
        !.env = EnvelopeParams(EnvelopeDefaultA, EnvelopeDefaultAd,
                               EnvelopeDefaultDd, EnvelopeDefaultS,
                               EnvelopeDefaultSd, EnvelopeDefaultRd)]
SilenceNew == MkStream("Silence", 0, 0, <<>>)
SineWaveNew == MkStream("SineWave", SineTemplateFrequency, 0, <<>>)
ModulatedSineWaveNew == MkStream("ModulatedSineWave", 0, 0, <<EmptyNew>>)
MixNew == MkStream("Mix", 0, MixDefaultP, <<EmptyNew, EmptyNew>>)

\* AllMyNodeTemplates::all_kinds: the template instance of each node kind.
Template(kind) ==
    CASE kind = "SineWave" -> SineWaveNew
      [] kind = "ModulatedSineWave" -> ModulatedSineWaveNew
      [] kind = "Mix" -> MixNew
      [] kind = "Silence" -> SilenceNew
      [] OTHER -> EmptyNew

set_frequency(wave, freq) == [wave EXCEPT !.frequency = freq]
set_modulator(wave, modulator) == [wave EXCEPT !.subs = <<modulator>>]
set_stream_a(wave, s) == [wave EXCEPT !.subs[1] = s]
set_stream_b(wave, s) == [wave EXCEPT !.subs[2] = s]
set_stream(wave, s) == [wave EXCEPT !.subs = <<s>>]
set_val(wave, v) == [wave EXCEPT !.val = v]
set_scale(wave, v) == [wave EXCEPT !.val = v]
set_env(wave, e) == [wave EXCEPT !.env = e]

(***************************************************************************)
(* Iterator::next of a stream: [some, sample, stream, overflow], stream     *)
(* being the state the value is left in by the call.  overflow tells that   *)
(* a `current_sample += 1` of the call was made on u32::MAX: a build with   *)
(* overflow checks panics there, a build without them wraps to 0 (the       *)
(* state given in stream).                                                  *)
(***************************************************************************)
RECURSIVE StreamNext(_)

None(s) == [some |-> FALSE, sample |-> <<"none">>, stream |-> s,
            overflow |-> FALSE]
Some(x, s) == [some |-> TRUE, sample |-> x, stream |-> s, overflow |-> FALSE]

\* self.current_sample += 1 on a u32.
CounterIncrement(s) ==
    [stream |-> [s EXCEPT !.current_sample = (@ + 1) % CounterModulus],
     overflow |-> s.current_sample = CounterModulus - 1]

\* The generators that compute a sample from current_sample and count on.
CounterNext(tag, s) ==
    LET c == CounterIncrement(s)
    IN [some |-> TRUE,
        sample |-> <<tag, IF s.kind = "Perlin" THEN s.val ELSE s.frequency,
                     s.current_sample>>,
        stream |-> c.stream, overflow |-> c.overflow]

SineWaveNext(s) == CounterNext("sin", s)
SquareWaveNext(s) == CounterNext("square", s)
TriangleWaveNext(s) == CounterNext("triangle", s)
SawtoothWaveNext(s) == CounterNext("sawtooth", s)
PerlinNext(s) == CounterNext("perlin", s)

ConstNext(s) == Some(<<"const", s.val>>, s)

\* rand::random: the value is not looked at by any consumer.
WhiteNoiseNext(s) == Some(<<"random">>, s)

\* A source that yields a zero before it ends.
EmptyNextYields(s) == Some(<<"zero">>, s)

EmptyNext(s) == None(s)

\* A source that ends at once.
SilenceNextEnds(s) == None(s)

SilenceNext(s) == Some(<<"zero">>, s)

\* The modulator pulled a second time for the phase increment.
ModulatedSineWavePullsTwice(s, r) ==
    LET r2 == StreamNext(r.stream)
    IN IF r.some
       THEN [Some(<<"msin", s.frequency, s.acc>>,
                  [s EXCEPT !.subs = <<r2.stream>>,
                            !.acc = Append(@, r2.sample)])
             EXCEPT !.overflow = r.overflow \/ r2.overflow]
       ELSE [None([s EXCEPT !.subs = <<r.stream>>])
             EXCEPT !.overflow = r.overflow]

\* The modulator is pulled first; the phase accumulator then advances by
\* 1 + a (mod sample_rate), kept as the sequence of the a's consumed.
ModulatedSineWaveStep(s, r) ==
    IF r.some
    THEN [Some(<<"msin", s.frequency, s.acc>>,
               [s EXCEPT !.subs = <<r.stream>>, !.acc = Append(@, r.sample)])
          EXCEPT !.overflow = r.overflow]
    ELSE [None([s EXCEPT !.subs = <<r.stream>>])
          EXCEPT !.overflow = r.overflow]

\* An operand that has ended taken as silence.
PairStepPadsB(tag, s, ra, rb) ==
    IF ~ra.some
    THEN [None([s EXCEPT !.subs[1] = ra.stream]) EXCEPT !.overflow = ra.overflow]
    ELSE [Some(IF tag = "mix" THEN <<tag, s.p, ra.sample,
                                     IF rb.some THEN rb.sample ELSE <<"zero">>>>
               ELSE <<tag, ra.sample,
                      IF rb.some THEN rb.sample ELSE <<"zero">>>>,
               [s EXCEPT !.subs = <<ra.stream, rb.stream>>])
          EXCEPT !.overflow = ra.overflow \/ rb.overflow]

\* stream_a.next().and_then(|a| stream_b.next().map(|b| ...)): stream_b is
\* pulled only when stream_a yielded a sample.
PairStep(tag, s, ra, rb) ==
    IF ~ra.some
    THEN [None([s EXCEPT !.subs[1] = ra.stream]) EXCEPT !.overflow = ra.overflow]
    ELSE IF ~rb.some
    THEN [None([s EXCEPT !.subs = <<ra.stream, rb.stream>>])
          EXCEPT !.overflow = ra.overflow \/ rb.overflow]
    ELSE [Some(IF tag = "mix" THEN <<tag, s.p, ra.sample, rb.sample>>
               ELSE <<tag, ra.sample, rb.sample>>,
               [s EXCEPT !.subs = <<ra.stream, rb.stream>>])
          EXCEPT !.overflow = ra.overflow \/ rb.overflow]

\* Two operands that started as the same value held as one shared stream:
\* a pull of one advances the other as well.
MixStepShared(s, ra, rb) ==
    LET shared == s.subs[1] = s.subs[2]
        rs == StreamNext(ra.stream)
        b2 == IF shared THEN rs ELSE rb
        a2 == IF shared THEN rs.stream ELSE ra.stream
    IN IF ~ra.some THEN None([s EXCEPT !.subs[1] = ra.stream])
       ELSE IF ~b2.some THEN None([s EXCEPT !.subs = <<a2, b2.stream>>])
       ELSE Some(<<"mix", s.p, ra.sample, b2.sample>>,
                 [s EXCEPT !.subs = <<a2, b2.stream>>])

MixStep(s, ra, rb) == PairStep("mix", s, ra, rb)
AddStep(s, ra, rb) == PairStep("add", s, ra, rb)
MultiplyStep(s, ra, rb) == PairStep("mul", s, ra, rb)

\* lerp(a, b, f) for f = num / den, times den.
lerp(a, b, num, den) == a * (den - num) + b * num

\* The decay interpolated from the sustain level up to the attack level.
EnvelopeGainDecayReversed(e, n) ==
    IF n < e.ad THEN <<lerp(0, e.a, n, e.ad), e.ad>>
    ELSE IF n < e.ad + e.dd THEN <<lerp(e.s, e.a, n - e.ad, e.dd), e.dd>>
    ELSE IF n < e.ad + e.dd + e.sd THEN <<e.s, 1>>
    ELSE IF n < e.ad + e.dd + e.sd + e.rd
    THEN <<lerp(e.s, 0, n - e.ad - e.dd - e.sd, e.rd), e.rd>>
    ELSE <<0, 1>>

\* The gain of the envelope at sample index n, as <<numerator, denominator>>.
\* t = n / sample_rate is compared with the durations, here in samples.
EnvelopeGain(e, n) ==
    IF n < e.ad THEN <<lerp(0, e.a, n, e.ad), e.ad>>
    ELSE IF n < e.ad + e.dd THEN <<lerp(e.a, e.s, n - e.ad, e.dd), e.dd>>
    ELSE IF n < e.ad + e.dd + e.sd THEN <<e.s, 1>>
    ELSE IF n < e.ad + e.dd + e.sd + e.rd
    THEN <<lerp(e.s, 0, n - e.ad - e.dd - e.sd, e.rd), e.rd>>
    ELSE <<0, 1>>

\* The envelope ends by itself once the release is over, and pulls no more.
EnvelopeStepEndsAfterRelease(s, c, r) ==
    IF s.current_sample >= s.env.ad + s.env.dd + s.env.sd + s.env.rd
    THEN [some |-> FALSE, sample |-> <<"none">>, stream |-> c.stream,
          overflow |-> c.overflow]
    ELSE IF r.some
    THEN [some |-> TRUE,
          sample |-> <<"env", r.sample, EnvelopeGain(s.env, s.current_sample)>>,
          stream |-> [c.stream EXCEPT !.subs = <<r.stream>>],
          overflow |-> c.overflow \/ r.overflow]
    ELSE [some |-> FALSE, sample |-> <<"none">>,
          stream |-> [c.stream EXCEPT !.subs = <<r.stream>>],
          overflow |-> c.overflow \/ r.overflow]

\* The counter read and incremented, then the stream pulled; the gain is
\* computed only when the stream yielded a sample.
EnvelopeStep(s, c, r) ==
    IF r.some
    THEN [some |-> TRUE,
          sample |-> <<"env", r.sample, EnvelopeGain(s.env, s.current_sample)>>,
          stream |-> [c.stream EXCEPT !.subs = <<r.stream>>],
          overflow |-> c.overflow \/ r.overflow]
    ELSE [some |-> FALSE, sample |-> <<"none">>,
          stream |-> [c.stream EXCEPT !.subs = <<r.stream>>],
          overflow |-> c.overflow \/ r.overflow]

StreamNext(s) ==
    CASE s.kind = "SineWave" -> SineWaveNext(s)
      [] s.kind = "SquareWave" -> SquareWaveNext(s)
      [] s.kind = "TriangleWave" -> TriangleWaveNext(s)
      [] s.kind = "SawtoothWave" -> SawtoothWaveNext(s)
      [] s.kind = "ModulatedSineWave" ->
            ModulatedSineWaveStep(s, StreamNext(s.subs[1]))
      [] s.kind = "Mix" ->
            MixStep(s, StreamNext(s.subs[1]), StreamNext(s.subs[2]))
      [] s.kind = "Const" -> ConstNext(s)
      [] s.kind = "Envelope" ->
            EnvelopeStep(s, CounterIncrement(s), StreamNext(s.subs[1]))
      [] s.kind = "Perlin" -> PerlinNext(s)
      [] s.kind = "WhiteNoise" -> WhiteNoiseNext(s)
      [] s.kind = "Add" ->
            AddStep(s, StreamNext(s.subs[1]), StreamNext(s.subs[2]))
      [] s.kind = "Multiply" ->
            MultiplyStep(s, StreamNext(s.subs[1]), StreamNext(s.subs[2]))
      [] s.kind = "Silence" -> SilenceNext(s)
      [] OTHER -> EmptyNext(s)

(***************************************************************************)
(* MyValueType: what flows along an edge or sits inline in an input.        *)
(***************************************************************************)
StreamValue(s) == [type |-> "Stream", stream |-> <<s>>, const |-> 0]
ConstValue(c) == [type |-> "Const", stream |-> <<>>, const |-> c]

Ok(v) == [ok |-> TRUE, value |-> v, err |-> "none"]
Err(e) == [ok |-> FALSE, value |-> ConstValue(0), err |-> e]

try_to_stream(v) == IF v.type = "Stream" THEN Ok(v) ELSE Err("InvalidCast")

\* A failed downcast replaced by a zero.
TryToConstOrZero(v) == IF v.type = "Const" THEN Ok(v) ELSE Ok(ConstValue(0))
try_to_const(v) == IF v.type = "Const" THEN Ok(v) ELSE Err("InvalidCast")

(***************************************************************************)
(* build_node: the ports of each kind, the declared type of each input and  *)
(* its inline default.                                                      *)
(***************************************************************************)
InputPorts(kind) ==
    CASE kind = "SineWave" -> {"Frequency"}
      [] kind = "ModulatedSineWave" -> {"Frequency", "Modulation"}
      [] kind = "Mix" -> {"p", "A", "B"}
      [] OTHER -> {}

DataType(name) == IF name \in {"Frequency", "p"} THEN "Const" ELSE "Stream"

\* The match arms of evaluate_node: the inputs each arm reads, in order.
ReadInputs(kind) ==
    CASE kind = "SineWave" -> <<"Frequency">>
      [] kind = "ModulatedSineWave" -> <<"Frequency", "Modulation">>
      [] kind = "Mix" -> <<"A", "B">>
      [] OTHER -> <<>>

(***************************************************************************)
(* State.                                                                  *)
(*   graph         the node graph: nodes (id -> kind, "none" when the id is *)
(*                 not in the graph), connections (triples <<node, input    *)
(*                 name, producer node>>), inputs (the inline constants)    *)
(*   next_id       the next fresh NodeId (ids are never reused)             *)
(*   active_node   user_state.active_node, 0 for None                      *)
(*   sink          the queue of the playback sink                           *)
(*   aborted       the process has died (a panic, a stack overflow)         *)
(*   pc, mode      where the running update or evaluate_node call stands    *)
(*   root          the node of the top-level evaluate_node call             *)
(*   stack         the evaluate_node calls in progress, innermost last      *)
(*   outputs_cache the OutputsCache of the pass                             *)
(*   result        what the top-level evaluate_node call returned           *)
(*   built         per node, the populate_output insertions of this pass    *)
(*   resolved      the values evaluate_input returned in this pass          *)
(*   failed        the nodes whose evaluate_node call returned an error     *)
(*   pulls, yielded  next() calls made on the returned stream, and how many *)
(*                 of them yielded a sample                                 *)
(*   ops           user operations so far                                   *)
(*   stream        a Stream value a caller of the library pulls from        *)
(*   initial       that value as it was constructed                         *)
(*   build         whether the build checks integer overflow ("checked",    *)
(*                 the debug profile) or wraps ("unchecked", release)       *)
(*   calls, yields the next() calls on stream that returned, and how many   *)
(*                 of them returned a sample                                *)
(*   last          what the last of these calls returned                    *)
(*   ended         one of these calls has returned None                     *)
(*   crashed       a next() call on stream has panicked                     *)
(***************************************************************************)
VARIABLES graph, next_id, active_node, sink, aborted, pc, mode, root, stack,
          outputs_cache, result, built, resolved, failed, pulls, yielded, ops,
          stream, initial, build, calls, yields, last, ended, crashed

vars == <<graph, next_id, active_node, sink, aborted, pc, mode, root, stack,
          outputs_cache, result, built, resolved, failed, pulls, yielded, ops,
          stream, initial, build, calls, yields, last, ended, crashed>>

streamVars == <<stream, initial, build, calls, yields, last, ended, crashed>>

appVars == <<active_node, sink, aborted, ops>>
graphVars == <<graph, next_id>>
evalVars == <<pc, mode, root, stack, outputs_cache, result, built, resolved,
              failed, pulls, yielded>>

(***************************************************************************)
(* Graph lookups.                                                          *)
(***************************************************************************)
InGraph(g, n) == n \in NodeIds /\ g.nodes[n] # "none"

\* Node::get_input / Node::get_output
get_input(g, n, name) == name \in InputPorts(g.nodes[n])
get_output(g, n, name) == name = "Stream"

\* Graph::connection: the producer feeding the input, 0 when none does.
connection(g, n, name) ==
    IF \E e \in g.connections : e[1] = n /\ e[2] = name
    THEN (CHOOSE e \in g.connections : e[1] = n /\ e[2] = name)[3]
    ELSE 0

DefaultInputs(kind) ==
    [Frequency |-> IF kind = "SineWave" THEN SineDefaultFrequency
                   ELSE ModulatorDefaultFrequency,
     p |-> MixDefaultP]

\* The template's default read in place of the input's current value.
InlineValueOfTemplate(g, n, name) ==
    IF DataType(name) = "Const"
    THEN ConstValue(DefaultInputs(g.nodes[n])[name])
    ELSE StreamValue(EmptyNew)

\* graph[input_id].value
InlineValue(g, n, name) ==
    IF DataType(name) = "Const" THEN ConstValue(g.inputs[n][name])
    ELSE StreamValue(EmptyNew)

(***************************************************************************)
(* evaluate_node as a machine over the call stack.  A frame is one          *)
(* evaluate_node call: the node, the index of the next input its arm reads, *)
(* and the clone of the template the arm is filling in.                     *)
(***************************************************************************)
Frame(g, n) == [node_id |-> n, idx |-> 1, wave |-> Template(g.nodes[n])]

Top == stack[Len(stack)]
TopKind == graph.nodes[Top.node_id]
TopReading == Top.idx <= Len(ReadInputs(TopKind))
TopName == ReadInputs(TopKind)[Top.idx]

\* Evaluator::input_const / input_stream: the downcast the arm applies.
Downcast(name, v) ==
    IF name = "Frequency" THEN try_to_const(v) ELSE try_to_stream(v)

\* The setter the arm calls with the downcast value.
ApplyInput(wave, name, v) ==
    CASE name = "Frequency" -> set_frequency(wave, v.const)
      [] name = "Modulation" -> set_modulator(wave, v.stream[1])
      [] name = "A" -> set_stream_a(wave, v.stream[1])
      [] OTHER -> set_stream_b(wave, v.stream[1])

\* The nodes of the calls in progress.
OnStack(stk) == {stk[k].node_id : k \in 1..Len(stk)}

\* The error of a nested evaluate_node call dropped (no `?`): the caller
\* goes on to the cache, finds nothing and panics.
DeliverDropsError(stk, v) ==
    LET f == stk[Len(stk)]
        name == ReadInputs(graph.nodes[f.node_id])[f.idx]
        c == Downcast(name, v)
    IN /\ resolved' = resolved \cup {<<f.node_id, name, v>>}
       /\ IF c.ok
          THEN /\ stack' = [stk EXCEPT ![Len(stk)] =
                               [f EXCEPT !.wave = ApplyInput(f.wave, name, c.value),
                                         !.idx = @ + 1]]
               /\ UNCHANGED <<pc, result, failed>>
          ELSE /\ stack' = IF Len(stk) = 1 THEN <<>> ELSE <<stk[1]>>
               /\ pc' = IF Len(stk) = 1 THEN "done" ELSE "panic"
               /\ result' = Err(c.err)
               /\ failed' = OnStack(stk)

\* evaluate_input has returned Ok(v) to the arm of the innermost frame of
\* stk: the arm downcasts it and goes on, or returns the error (`?`), which
\* every caller up to the top-level call returns in turn.
Deliver(stk, v) ==
    LET f == stk[Len(stk)]
        name == ReadInputs(graph.nodes[f.node_id])[f.idx]
        c == Downcast(name, v)
    IN /\ resolved' = resolved \cup {<<f.node_id, name, v>>}
       /\ IF c.ok
          THEN /\ stack' = [stk EXCEPT ![Len(stk)] =
                               [f EXCEPT !.wave = ApplyInput(f.wave, name, c.value),
                                         !.idx = @ + 1]]
               /\ UNCHANGED <<pc, result, failed>>
          ELSE /\ stack' = <<>>
               /\ pc' = "done"
               /\ result' = Err(c.err)
               /\ failed' = OnStack(stk)

\* get_input(param_name)? fails: the error goes up to the top-level call.
InputMissing ==
    /\ stack' = <<>>
    /\ pc' = "done"
    /\ result' = Err("MissingPort")
    /\ failed' = OnStack(stack)
    /\ UNCHANGED resolved

\* outputs_cache.get(&other_output_id) finds a value.
CachedNever(cache, other) == FALSE

Cached(cache, other) == other \in DOMAIN cache

\* evaluate_input, no connection: the inline value.
EvalInputInline ==
    /\ pc = "eval" /\ stack # <<>> /\ TopReading
    /\ connection(graph, Top.node_id, TopName) = 0
    /\ IF get_input(graph, Top.node_id, TopName)
       THEN Deliver(stack, InlineValue(graph, Top.node_id, TopName))
       ELSE InputMissing
    /\ UNCHANGED <<graphVars, appVars, mode, root, outputs_cache, built,
                   pulls, yielded>>
    /\ UNCHANGED streamVars

\* evaluate_input, connected, the producer's output is in the cache.
EvalInputCached ==
    /\ pc = "eval" /\ stack # <<>> /\ TopReading
    /\ LET other == connection(graph, Top.node_id, TopName)
       IN /\ other # 0
          /\ Cached(outputs_cache, other)
          /\ Deliver(stack, outputs_cache[other])
    /\ UNCHANGED <<graphVars, appVars, mode, root, outputs_cache, built,
                   pulls, yielded>>
    /\ UNCHANGED streamVars

\* A cycle guard: a producer that is still being evaluated is not entered
\* again, the input takes its inline value.
EvalInputRecurseGuarded ==
    /\ pc = "eval" /\ stack # <<>> /\ TopReading
    /\ LET other == connection(graph, Top.node_id, TopName)
       IN /\ other # 0
          /\ ~Cached(outputs_cache, other)
          /\ Len(stack) < MaxDepth
          /\ IF other \in OnStack(stack)
             THEN Deliver(stack, InlineValue(graph, Top.node_id, TopName))
             ELSE /\ stack' = Append(stack, Frame(graph, other))
                  /\ UNCHANGED <<pc, result, resolved, failed>>
    /\ UNCHANGED <<graphVars, appVars, mode, root, outputs_cache, built,
                   pulls, yielded>>
    /\ UNCHANGED streamVars

\* evaluate_input, connected, not cached: evaluate_node on the producer.
EvalInputRecurse ==
    /\ pc = "eval" /\ stack # <<>> /\ TopReading
    /\ LET other == connection(graph, Top.node_id, TopName)
       IN /\ other # 0
          /\ ~Cached(outputs_cache, other)
          /\ Len(stack) < MaxDepth
          /\ stack' = Append(stack, Frame(graph, other))
    /\ UNCHANGED <<graphVars, appVars, pc, mode, root, outputs_cache, result,
                   built, resolved, failed, pulls, yielded>>
    /\ UNCHANGED streamVars

\* The same call with the call stack exhausted: the process dies.
EvalStackOverflow ==
    /\ pc = "eval" /\ stack # <<>> /\ TopReading
    /\ LET other == connection(graph, Top.node_id, TopName)
       IN /\ other # 0
          /\ ~Cached(outputs_cache, other)
          /\ Len(stack) >= MaxDepth
    /\ pc' = "overflow"
    /\ aborted' = TRUE
    /\ UNCHANGED <<graphVars, active_node, sink, ops, mode, root, stack,
                   outputs_cache, result, built, resolved, failed, pulls,
                   yielded>>
    /\ UNCHANGED streamVars

\* The insertion forgotten.
PopulateNothing(cache, n, value) == cache

\* populate_output: the cache after the arm's output has been inserted.
populate_output(cache, n, value) == (n :> value) @@ cache

\* The arm has read its inputs: populate_output, and evaluate_node returns.
\* The caller, if any, is in evaluate_input and takes the value from the
\* cache (`expect("Cache should be populated")`).
EvalOutput ==
    /\ pc = "eval" /\ stack # <<>> /\ ~TopReading
    /\ LET n == Top.node_id
           value == StreamValue(Top.wave)
           cache == populate_output(outputs_cache, n, value)
           rest == SubSeq(stack, 1, Len(stack) - 1)
       IN /\ get_output(graph, n, "Stream")
          /\ outputs_cache' = cache
          /\ built' = [built EXCEPT ![n] = @ + 1]
          /\ IF rest = <<>>
             THEN /\ stack' = <<>>
                  /\ pc' = "done"
                  /\ result' = Ok(value)
                  /\ UNCHANGED <<resolved, failed>>
             ELSE LET caller == rest[Len(rest)]
                      other == connection(graph, caller.node_id,
                                   ReadInputs(graph.nodes[caller.node_id])
                                       [caller.idx])
                  IN IF other \in DOMAIN cache
                     THEN Deliver(rest, cache[other])
                     ELSE /\ pc' = "panic" /\ stack' = rest
                          /\ UNCHANGED <<result, resolved, failed>>
    /\ aborted' = (pc' = "panic")
    /\ UNCHANGED <<graphVars, active_node, sink, ops, mode, root, pulls, yielded>>
    /\ UNCHANGED streamVars

NoResult == Err("none")

\* The map of the previous pass passed on to the next one.
BeginEvaluateKeepsCache(n, m) ==
    /\ pc' = "eval"
    /\ mode' = m
    /\ root' = n
    /\ stack' = <<Frame(graph, n)>>
    /\ outputs_cache' = outputs_cache
    /\ result' = NoResult
    /\ built' = [i \in NodeIds |-> 0]
    /\ resolved' = {}
    /\ failed' = {}
    /\ pulls' = 0
    /\ yielded' = 0

\* A top-level call evaluate_node(graph, node, &mut HashMap::new()).
BeginEvaluate(n, m) ==
    /\ pc' = "eval"
    /\ mode' = m
    /\ root' = n
    /\ stack' = <<Frame(graph, n)>>
    /\ outputs_cache' = <<>>
    /\ result' = NoResult
    /\ built' = [i \in NodeIds |-> 0]
    /\ resolved' = {}
    /\ failed' = {}
    /\ pulls' = 0
    /\ yielded' = 0

EvalStep ==
    \/ EvalInputInline
    \/ EvalInputCached
    \/ EvalInputRecurse
    \/ EvalStackOverflow
    \/ EvalOutput

(***************************************************************************)
(* The graphs evaluate_node is checked on: MaxNodes nodes of any kinds, up  *)
(* to MaxEdges connections from any output to any input (the graph and the  *)
(* evaluator do not look at the declared port types), every Frequency       *)
(* input holding its default or an edited inline value.                     *)
(***************************************************************************)
InputIds(kinds) ==
    {i \in NodeIds \X PortNames : i[2] \in InputPorts(kinds[i[1]])}

\* The sets of at most k connections into the inputs P, at most one source
\* per input.
RECURSIVE ConnectionSets(_, _)
ConnectionSets(P, k) ==
    IF P = {} \/ k = 0 THEN {{}}
    ELSE LET i == CHOOSE x \in P : TRUE
         IN ConnectionSets(P \ {i}, k)
            \cup {E \cup {<<i[1], i[2], m>>} :
                    E \in ConnectionSets(P \ {i}, k - 1), m \in NodeIds}

InlineChoices(kinds) ==
    {i \in [NodeIds -> [Frequency : {SineDefaultFrequency,
                                     ModulatorDefaultFrequency,
                                     EditedFrequency},
                        p : {MixDefaultP}]] :
        \A n \in NodeIds :
            i[n].Frequency \in {DefaultInputs(kinds[n]).Frequency,
                                IF "Frequency" \in InputPorts(kinds[n])
                                THEN EditedFrequency
                                ELSE DefaultInputs(kinds[n]).Frequency}}

GraphFamily(g) ==
    \E kinds \in [NodeIds -> Kinds] :
        \E E \in ConnectionSets(InputIds(kinds), MaxEdges) :
            \E i \in InlineChoices(kinds) :
                g = [nodes |-> kinds, connections |-> E, inputs |-> i]

\* No next() call has returned yet.
NoCall == [some |-> FALSE, sample |-> <<"nocall">>]

InitIdle ==
    /\ active_node = 0
    /\ sink = <<>>
    /\ aborted = FALSE
    /\ pc = "idle"
    /\ mode = "none"
    /\ root = 0
    /\ stack = <<>>
    /\ outputs_cache = <<>>
    /\ result = NoResult
    /\ built = [i \in NodeIds |-> 0]
    /\ resolved = {}
    /\ failed = {}
    /\ pulls = 0
    /\ yielded = 0
    /\ ops = 0

InitNoStream ==
    /\ stream = EmptyNew
    /\ initial = EmptyNew
    /\ build = "unchecked"
    /\ calls = 0
    /\ yields = 0
    /\ last = NoCall
    /\ ended = FALSE
    /\ crashed = FALSE

InitCommon == InitIdle /\ InitNoStream

InitEval ==
    /\ GraphFamily(graph)
    /\ next_id = MaxNodes + 1
    /\ InitCommon

\* A caller of the library evaluates a node of the graph.
CallEvaluate(n) ==
    /\ pc = "idle"
    /\ InGraph(graph, n)
    /\ BeginEvaluate(n, "call")
    /\ UNCHANGED <<graphVars, appVars>>
    /\ UNCHANGED streamVars

\* The caller pulls the next sample of the pipeline evaluate_node returned.
ConsumerPull ==
    /\ pc = "done" /\ mode = "call"
    /\ result.ok /\ result.value.type = "Stream"
    /\ pulls < MaxPulls
    /\ LET r == StreamNext(result.value.stream[1])
       IN /\ result' = Ok(StreamValue(r.stream))
          /\ pulls' = pulls + 1
          /\ yielded' = yielded + (IF r.some THEN 1 ELSE 0)
    /\ UNCHANGED <<graphVars, appVars, pc, mode, root, stack, outputs_cache,
                   built, resolved, failed>>
    /\ UNCHANGED streamVars

\* GraphFamily is closed under renaming the nodes, so evaluating node 1 of
\* every graph of the family covers evaluating any node of any of them.
CallRoots == {1}

NextEval ==
    \/ \E n \in CallRoots : CallEvaluate(n)
    \/ EvalStep
    \/ ConsumerPull

SpecEval == InitEval /\ [][NextEval]_vars

\* evaluate_node runs synchronously: a call in progress takes its next step.
SpecEvalFair == SpecEval /\ WF_vars(EvalStep)

(***************************************************************************)
(* The application (NodeGraphExample).  One update is: the editor applies   *)
(* the user's edit to the graph and reports the node responses, the         *)
(* responses are handled, and the active node is evaluated for display.     *)
(* pc = "idle" between updates.                                             *)
(***************************************************************************)
EmptyGraph ==
    [nodes |-> [n \in NodeIds |-> "none"],
     connections |-> {},
     inputs |-> [n \in NodeIds |-> DefaultInputs("none")]]

Init ==
    /\ graph = EmptyGraph
    /\ next_id = 1
    /\ InitCommon

CanAct == pc = "idle" /\ ~aborted /\ ops < MaxOps

\* What is left of the update after the edit: the display evaluation.
ThenDisplay ==
    /\ pc' = "display"
    /\ ops' = ops + 1
    /\ UNCHANGED <<mode, root, stack, outputs_cache, result, built, resolved,
                   failed, pulls, yielded>>

\* The node finder creates a node of a template: build_node.
AddNode(kind) ==
    /\ CanAct
    /\ next_id <= MaxIds /\ next_id \in NodeIds
    /\ graph' = [graph EXCEPT !.nodes[next_id] = kind,
                              !.inputs[next_id] = DefaultInputs(kind)]
    /\ next_id' = next_id + 1
    /\ ThenDisplay
    /\ UNCHANGED <<active_node, sink, aborted>>
    /\ UNCHANGED streamVars

\* The editor deletes a node, and with it every connection that touches it.
RemoveNode(n) ==
    /\ CanAct
    /\ InGraph(graph, n)
    /\ graph' = [graph EXCEPT
                    !.nodes[n] = "none",
                    !.inputs[n] = DefaultInputs("none"),
                    !.connections = {e \in @ : e[1] # n /\ e[3] # n}]
    /\ ThenDisplay
    /\ UNCHANGED <<next_id, active_node, sink, aborted>>
    /\ UNCHANGED streamVars

\* Graph::add_connection: the input takes the output as its only source.
AddConnection(n, name, m) ==
    /\ CanAct
    /\ InGraph(graph, n) /\ InGraph(graph, m)
    /\ get_input(graph, n, name)
    /\ connection(graph, n, name) # m
    /\ graph' = [graph EXCEPT
                    !.connections =
                        {e \in @ : ~(e[1] = n /\ e[2] = name)}
                        \cup {<<n, name, m>>}]
    /\ ThenDisplay
    /\ UNCHANGED <<next_id, active_node, sink, aborted>>
    /\ UNCHANGED streamVars

\* Graph::remove_connection
RemoveConnection(n, name) ==
    /\ CanAct
    /\ connection(graph, n, name) # 0
    /\ graph' = [graph EXCEPT
                    !.connections = {e \in @ : ~(e[1] = n /\ e[2] = name)}]
    /\ ThenDisplay
    /\ UNCHANGED <<next_id, active_node, sink, aborted>>
    /\ UNCHANGED streamVars

\* value_widget: the DragValue of a Const input changes its inline value.
EditConst(n, name, v) ==
    /\ CanAct
    /\ InGraph(graph, n)
    /\ get_input(graph, n, name) /\ DataType(name) = "Const"
    /\ graph.inputs[n][name] # v
    /\ graph' = [graph EXCEPT !.inputs[n][name] = v]
    /\ ThenDisplay
    /\ UNCHANGED <<next_id, active_node, sink, aborted>>
    /\ UNCHANGED streamVars

(***************************************************************************)
(* The playback sink: a queue of sources; each entry keeps the pipeline and *)
(* the number of samples pulled from it.                                    *)
(***************************************************************************)
SinkEntry(s) == [pipe |-> s, pulled |-> 0]

\* The source that is playing left in the queue.
SkipNothing(q) == q

\* Sink::skip_one: the source that is playing, if any, is dropped.
skip_one(q) == IF q = <<>> THEN q ELSE Tail(q)

\* Sink::stop: the queue is emptied.
stop(q) == <<>>

\* The `match stream` of SetActiveNode: the kinds that are appended.
append(q, s) ==
    IF s.kind \in {"SineWave", "ModulatedSineWave", "Mix"}
    THEN Append(q, SinkEntry(s))
    ELSE q

\* The `.map(...)` of SetActiveNode: a value that is no stream plays Empty.
StreamOf(v) == IF v.type = "Stream" THEN v.stream[1] ELSE EmptyNew

\* bottom_ui, "Set active" pressed on a node that is not the active one:
\* SetActiveNode(node), up to the evaluate_node call.
SetActiveNode(n) ==
    /\ CanAct
    /\ InGraph(graph, n)
    /\ active_node # n
    /\ active_node' = n
    /\ ops' = ops + 1
    /\ BeginEvaluate(n, "activate")
    /\ UNCHANGED <<graphVars, sink, aborted>>
    /\ UNCHANGED streamVars

\* SetActiveNode after evaluate_node has returned: `.expect(...)` panics on
\* an error; otherwise skip_one and the append of the new pipeline.
ActivateFinish ==
    /\ pc = "done" /\ mode = "activate"
    /\ IF result.ok
       THEN /\ sink' = append(skip_one(sink), StreamOf(result.value))
            /\ pc' = "display"
            /\ UNCHANGED aborted
       ELSE /\ aborted' = TRUE
            /\ pc' = "panic"
            /\ UNCHANGED sink
    /\ UNCHANGED <<graphVars, active_node, ops, mode, root, stack,
                   outputs_cache, result, built, resolved, failed, pulls,
                   yielded>>
    /\ UNCHANGED streamVars

\* bottom_ui, "Active" pressed on the active node: ClearActiveNode.
ClearActiveNode ==
    /\ CanAct
    /\ active_node # 0 /\ InGraph(graph, active_node)
    /\ sink' = stop(sink)
    /\ active_node' = 0
    /\ ThenDisplay
    /\ UNCHANGED <<graphVars, aborted>>
    /\ UNCHANGED streamVars

\* An update in which the user does nothing.
IdleFrame ==
    /\ pc = "idle" /\ ~aborted
    /\ active_node # 0
    /\ pc' = "display"
    /\ UNCHANGED <<graphVars, appVars, mode, root, stack, outputs_cache,
                   result, built, resolved, failed, pulls, yielded>>
    /\ UNCHANGED streamVars

\* The check that the active node is still in the graph left out of the
\* reset: a deleted active node stays the active node.
DisplayBeginKeepsDeleted ==
    /\ pc = "display"
    /\ IF active_node # 0 /\ InGraph(graph, active_node)
       THEN BeginEvaluate(active_node, "display")
       ELSE /\ pc' = "idle"
            /\ UNCHANGED <<mode, root, stack, outputs_cache, result, built,
                           resolved, failed, pulls, yielded>>
    /\ UNCHANGED <<graphVars, active_node, sink, aborted, ops>>
    /\ UNCHANGED streamVars

\* The end of update: the active node, if it is still in the graph, is
\* evaluated for display; a deleted active node is forgotten.
DisplayBegin ==
    /\ pc = "display"
    /\ IF active_node = 0
       THEN /\ pc' = "idle"
            /\ UNCHANGED <<active_node, mode, root, stack, outputs_cache,
                           result, built, resolved, failed, pulls, yielded>>
       ELSE IF InGraph(graph, active_node)
       THEN /\ BeginEvaluate(active_node, "display")
            /\ UNCHANGED active_node
       ELSE /\ active_node' = 0
            /\ pc' = "idle"
            /\ UNCHANGED <<mode, root, stack, outputs_cache, result, built,
                           resolved, failed, pulls, yielded>>
    /\ UNCHANGED <<graphVars, sink, aborted, ops>>
    /\ UNCHANGED streamVars

\* The displayed pipeline handed to the sink again on every frame.
DisplayFinishReplays ==
    /\ pc = "done" /\ mode = "display"
    /\ pc' = "idle"
    /\ sink' = IF result.ok
               THEN append(skip_one(sink), StreamOf(result.value))
               ELSE sink
    /\ UNCHANGED <<graphVars, active_node, aborted, ops, mode, root, stack,
                   outputs_cache, result, built, resolved, failed, pulls,
                   yielded>>
    /\ UNCHANGED streamVars

\* The result, or the error, is painted; the update returns.
DisplayFinish ==
    /\ pc = "done" /\ mode = "display"
    /\ pc' = "idle"
    /\ UNCHANGED <<graphVars, appVars, mode, root, stack, outputs_cache,
                   result, built, resolved, failed, pulls, yielded>>
    /\ UNCHANGED streamVars

\* The audio thread pulls one sample from the source at the head of the
\* queue; a source that has ended is dropped.
AudioPull ==
    /\ pc = "idle" /\ ~aborted
    /\ sink # <<>>
    /\ Head(sink).pulled < MaxPulls
    /\ LET r == StreamNext(Head(sink).pipe)
       IN sink' = IF r.some
                  THEN <<[pipe |-> r.stream, pulled |-> Head(sink).pulled + 1]>>
                       \o Tail(sink)
                  ELSE Tail(sink)
    /\ UNCHANGED <<graphVars, active_node, aborted, ops, evalVars>>
    /\ UNCHANGED streamVars

Edit ==
    \/ \E kind \in Kinds : AddNode(kind)
    \/ \E n \in NodeIds : RemoveNode(n)
    \/ \E n, m \in NodeIds : \E name \in PortNames : AddConnection(n, name, m)
    \/ \E n \in NodeIds : \E name \in PortNames : RemoveConnection(n, name)
    \/ \E n \in NodeIds : EditConst(n, "Frequency", EditedFrequency)
    \/ \E n \in NodeIds : EditConst(n, "p", EditedP)

Next ==
    \/ Edit
    \/ \E n \in NodeIds : SetActiveNode(n)
    \/ ActivateFinish
    \/ ClearActiveNode
    \/ IdleFrame
    \/ DisplayBegin
    \/ DisplayFinish
    \/ EvalStep
    \/ AudioPull

Spec == Init /\ [][Next]_vars

(***************************************************************************)
(* The stream library on its own: a caller builds a Stream value with the   *)
(* constructors and setters of fm.rs and calls next() on it.                *)
(***************************************************************************)
MaxDuration == 2

Durations == 1..MaxDuration

\* Envelopes with every choice of positive durations.
Envelopes ==
    {EnvelopeParams(EnvelopeDefaultA, ad, dd, EnvelopeDefaultS, sd, rd) :
        ad \in Durations, dd \in Durations, sd \in Durations,
        rd \in Durations}

UnitEnvelope ==
    EnvelopeParams(EnvelopeDefaultA, 1, 1, EnvelopeDefaultS, 1, 1)

Generators ==
    {set_frequency(SineWaveNew, SineDefaultFrequency),
     set_frequency(SquareWaveNew, SineDefaultFrequency),
     set_frequency(TriangleWaveNew, SineDefaultFrequency),
     set_frequency(SawtoothWaveNew, SineDefaultFrequency),
     PerlinNew}

Leaves == Generators \cup {EmptyNew, SilenceNew, ConstNew, WhiteNoiseNew}

Templates == {Template(kind) : kind \in Kinds}

Unary(P, E) ==
    {set_modulator(set_frequency(ModulatedSineWaveNew, SineDefaultFrequency), m) :
        m \in P}
    \cup {set_env(set_stream(EnvelopeNew, m), e) : m \in P, e \in E}

Binary(P) ==
    {set_stream_b(set_stream_a(w, a), b) :
        w \in {MixNew, AddNew, MultiplyNew}, a \in P, b \in P}

Core == {EmptyNew, SilenceNew, set_frequency(SineWaveNew, SineDefaultFrequency)}

Pool == Leaves \cup Unary(Core, {UnitEnvelope}) \cup Binary(Core)

StreamFamily ==
    Leaves \cup Templates \cup {EnvelopeNew}
    \cup Unary(Leaves, Envelopes) \cup Unary(Pool, {UnitEnvelope})
    \cup Binary(Pool)

InitStream ==
    /\ graph = EmptyGraph
    /\ next_id = 1
    /\ InitIdle
    /\ stream \in StreamFamily
    /\ initial = stream
    /\ build \in {"checked", "unchecked"}
    /\ calls = 0
    /\ yields = 0
    /\ last = NoCall
    /\ ended = FALSE
    /\ crashed = FALSE

\* stream.next() returns.
StreamPull ==
    /\ ~crashed /\ calls < MaxCalls
    /\ LET r == StreamNext(stream)
       IN /\ ~(r.overflow /\ build = "checked")
          /\ stream' = r.stream
          /\ calls' = calls + 1
          /\ yields' = yields + (IF r.some THEN 1 ELSE 0)
          /\ last' = [some |-> r.some, sample |-> r.sample]
          /\ ended' = (ended \/ ~r.some)
    /\ UNCHANGED <<initial, build, crashed>>
    /\ UNCHANGED <<graphVars, appVars, evalVars>>

\* stream.next() increments a counter that stands at u32::MAX in a build
\* with overflow checks: "attempt to add with overflow".
StreamPullPanics ==
    /\ ~crashed /\ calls < MaxCalls
    /\ StreamNext(stream).overflow /\ build = "checked"
    /\ crashed' = TRUE
    /\ UNCHANGED <<stream, initial, build, calls, yields, last, ended>>
    /\ UNCHANGED <<graphVars, appVars, evalVars>>

NextStream == StreamPull \/ StreamPullPanics

SpecStream == InitStream /\ [][NextStream]_vars

(***************************************************************************)
(* Graph shape, for stating the claims.                                     *)
(***************************************************************************)
Range(f) == {f[k] : k \in DOMAIN f}

\* The nodes feeding an input of n: any input, or only those its arm reads.
Producers(g, n, readOnly) ==
    {e[3] : e \in {x \in g.connections :
                      /\ x[1] = n
                      /\ (readOnly => x[2] \in Range(ReadInputs(g.nodes[n])))}}

RECURSIVE ReachFrom(_, _, _, _)
ReachFrom(g, S, readOnly, k) ==
    IF k = 0 THEN S
    ELSE ReachFrom(g, S \cup UNION {Producers(g, n, readOnly) : n \in S},
                   readOnly, k - 1)

\* The nodes reached from n along one edge or more.
Upstream(g, n, readOnly) ==
    ReachFrom(g, Producers(g, n, readOnly), readOnly, MaxNodes)

Acyclic(g) == \A n \in NodeIds : n \notin Upstream(g, n, FALSE)

\* r lies on, or reaches, a cycle of edges through inputs the arms read.
ReachesCycle(g, r) ==
    \E n \in {r} \cup Upstream(g, r, TRUE) : n \in Upstream(g, n, TRUE)

Returned == pc = "done"
ReturnedOk == pc = "done" /\ result.ok
ReturnedErr == pc = "done" /\ ~result.ok

\* n feeds two inputs or more that the arms of evaluated nodes read.
FansOut(n) ==
    Cardinality({e \in graph.connections :
                    /\ e[3] = n
                    /\ e[1] \in DOMAIN outputs_cache
                    /\ e[2] \in Range(ReadInputs(graph.nodes[e[1]]))}) >= 2

(***************************************************************************)
(* C1.  Within one top-level evaluate_node call on an acyclic graph every   *)
(* node is constructed (its output inserted into the cache) at most once;   *)
(* when the call has returned a value, every node the root reaches through  *)
(* inputs the arms read, and the root, has been constructed exactly once,   *)
(* a node whose output fans out to two consumers included, and no other     *)
(* node has been constructed.                                               *)
(***************************************************************************)
C1_ConstructedOnce ==
    Acyclic(graph) =>
        /\ \A n \in NodeIds : built[n] <= 1
        /\ ReturnedOk =>
              \A n \in NodeIds :
                  built[n] = IF n \in {root} \cup Upstream(graph, root, TRUE)
                             THEN 1 ELSE 0

C1_Witness ==
    /\ Acyclic(graph) /\ ReturnedOk
    /\ \E n \in NodeIds : FansOut(n) /\ built[n] = 1

(***************************************************************************)
(* C3.  An input resolved to a value of the other kind than the arm         *)
(* requires (a Stream where a scalar is required, a scalar where a Stream   *)
(* is required) makes evaluate_node return an error: the process does not   *)
(* die and no value is returned.                                            *)
(***************************************************************************)
Required(name) == IF name = "Frequency" THEN "Const" ELSE "Stream"

Mismatched == {r \in resolved : r[3].type # Required(r[2])}

C3_MismatchIsError ==
    (mode = "call" /\ Mismatched # {}) =>
        /\ ReturnedErr
        /\ result.err = "InvalidCast"
        /\ ~aborted

C3_Witness ==
    /\ mode = "call" /\ ReturnedErr
    /\ \E r \in Mismatched : r[2] = "Frequency" /\ r[3].type = "Stream"

(***************************************************************************)
(* C4.  When resolving an input fails anywhere below the root, the          *)
(* top-level call returns the error: no value is returned, and neither the  *)
(* root nor any node on the path from the failing node to the root has its  *)
(* output in the cache.  A call that returns a value has had no failure.    *)
(***************************************************************************)
C4_ErrorPropagates ==
    mode = "call" =>
        /\ (Mismatched # {} \/ failed # {}) => ReturnedErr
        /\ ReturnedErr =>
              /\ root \in failed
              /\ failed \cap DOMAIN outputs_cache = {}
              /\ \A n \in failed : built[n] = 0
        /\ ReturnedOk => (failed = {} /\ root \in DOMAIN outputs_cache)

C4_Witness ==
    /\ mode = "call" /\ ReturnedErr
    /\ root \in failed /\ Cardinality(failed) >= 2
    /\ DOMAIN outputs_cache # {}
    /\ root \notin DOMAIN outputs_cache

(***************************************************************************)
(* C7.  Every input an arm reads resolves to the value in the cache for the *)
(* producer output that feeds it, computed in this pass, when an edge feeds *)
(* it, and to the input's current inline value when none does; the node is  *)
(* constructed from exactly these values.                                   *)
(***************************************************************************)
CurrentInline(n, name) ==
    IF name \in {"Frequency", "p"}
    THEN [type |-> "Const", stream |-> <<>>, const |-> graph.inputs[n][name]]
    ELSE [type |-> "Stream", stream |-> <<EmptyNew>>, const |-> 0]

Feeds(n, name) == {e[3] : e \in {x \in graph.connections :
                                    x[1] = n /\ x[2] = name}}

ResolvedRight(r) ==
    IF Feeds(r[1], r[2]) # {}
    THEN \A m \in Feeds(r[1], r[2]) :
            /\ m \in DOMAIN outputs_cache
            /\ built[m] = 1
            /\ r[3] = outputs_cache[m]
    ELSE r[3] = CurrentInline(r[1], r[2])

\* The value the constructed node holds for the input.
Held(s, name) ==
    CASE name = "Frequency" -> ConstValue(s.frequency)
      [] name = "Modulation" -> StreamValue(s.subs[1])
      [] name = "A" -> StreamValue(s.subs[1])
      [] OTHER -> StreamValue(s.subs[2])

C7_InputResolution ==
    (mode = "call" /\ pc \in {"eval", "done"}) =>
        /\ \A r \in resolved : ResolvedRight(r)
        /\ \A n \in DOMAIN outputs_cache :
              \A name \in Range(ReadInputs(graph.nodes[n])) :
                  \E r \in resolved :
                      /\ r[1] = n /\ r[2] = name
                      /\ Held(outputs_cache[n].stream[1], name) = r[3]

C7_Witness ==
    /\ mode = "call" /\ ReturnedOk
    /\ \E r1, r2 \in resolved :
          /\ Feeds(r1[1], r1[2]) # {}
          /\ Feeds(r2[1], r2[2]) = {}
          /\ r2[2] = "Frequency" /\ r2[3].const = EditedFrequency

(***************************************************************************)
(* C2.  When one upstream output feeds two inputs, each consumer holds its  *)
(* own copy of the upstream stream, equal to the value stored in the cache  *)
(* when the pipeline is returned; pulling the pipeline advances each copy   *)
(* by its own pulls only: after the root Mix has been pulled, its operand A *)
(* is the cached value advanced once per pull of the Mix, and its operand B *)
(* is the cached value advanced once per pull that yielded a sample.        *)
(***************************************************************************)
RECURSIVE Advance(_, _)
Advance(s, k) == IF k = 0 THEN s ELSE Advance(StreamNext(s).stream, k - 1)

\* The inputs, read by the arms of evaluated nodes, that node m feeds.
Consumers(m) ==
    {e \in graph.connections :
        /\ e[3] = m
        /\ e[1] \in DOMAIN outputs_cache
        /\ e[2] \in Range(ReadInputs(graph.nodes[e[1]]))}

\* The root is a Mix whose two operands are fed by the output of node m.
RootFanOut(m) ==
    /\ graph.nodes[root] = "Mix"
    /\ <<root, "A", m>> \in graph.connections
    /\ <<root, "B", m>> \in graph.connections

C2_OwnCopies ==
    (mode = "call" /\ ReturnedOk) =>
        /\ \A m \in DOMAIN outputs_cache :
              \A e \in Consumers(m) :
                  Held(outputs_cache[e[1]].stream[1], e[2]) = outputs_cache[m]
        /\ \A m \in NodeIds :
              RootFanOut(m) =>
                 /\ m \in DOMAIN outputs_cache
                 /\ result.value.stream[1].subs[1]
                      = Advance(outputs_cache[m].stream[1], pulls)
                 /\ result.value.stream[1].subs[2]
                      = Advance(outputs_cache[m].stream[1], yielded)

C2_Witness ==
    /\ mode = "call" /\ ReturnedOk
    /\ pulls = 1
    /\ \E m \in NodeIds :
          /\ RootFanOut(m)
          /\ outputs_cache[m].stream[1].kind = "SineWave"
          /\ outputs_cache[m].stream[1].current_sample = 0
          /\ result.value.stream[1].subs[1].current_sample = 1
          /\ result.value.stream[1].subs[2].current_sample = 1

(***************************************************************************)
(* C5.  When a node is activated and its evaluation fails, the sink gets no *)
(* new pipeline, the pipeline that was playing keeps playing and the        *)
(* application does not abort.                                              *)
(***************************************************************************)
ActivationFailed ==
    mode = "activate" /\ pc \in {"done", "panic"} /\ result.err = "InvalidCast"

C6_SinkFrame ==
    [][(sink' # sink) => (ActivateFinish \/ ClearActiveNode \/ AudioPull)]_vars

C6_Witness ==
    /\ mode = "display" /\ ReturnedOk
    /\ sink # <<>>
    /\ Head(sink).pulled >= 1
    /\ Head(sink).pipe.frequency = SineDefaultFrequency
    /\ result.value.stream[1].frequency = EditedFrequency

(***************************************************************************)
(* C8.  Every top-level evaluation starts with an empty cache: whatever the *)
(* cache holds during a pass has been computed in that pass, and each       *)
(* cached value, like the value returned, is the pipeline that the graph    *)
(* as it is at that moment denotes, whatever was evaluated before the       *)
(* edits.                                                                   *)
(***************************************************************************)
\* The pipeline a node denotes in graph g (defined where the arms succeed).
RECURSIVE Denotes(_, _)
Denotes(g, n) ==
    LET kind == g.nodes[n]
        In(name) == LET m == connection(g, n, name)
                    IN IF m # 0 THEN Denotes(g, m) ELSE EmptyNew
        freq == g.inputs[n].Frequency
    IN CASE kind = "SineWave" -> [SineWaveNew EXCEPT !.frequency = freq]
         [] kind = "ModulatedSineWave" ->
               [ModulatedSineWaveNew EXCEPT !.frequency = freq,
                                            !.subs = <<In("Modulation")>>]
         [] kind = "Mix" -> [MixNew EXCEPT !.subs = <<In("A"), In("B")>>]
         [] kind = "Silence" -> SilenceNew
         [] OTHER -> EmptyNew

C8_FreshCache ==
    (mode \in {"activate", "display"} /\ pc \in {"eval", "done"}) =>
        /\ \A n \in DOMAIN outputs_cache :
              /\ built[n] >= 1
              /\ outputs_cache[n].type = "Stream"
              /\ outputs_cache[n].stream[1] = Denotes(graph, n)
        /\ ReturnedOk => result.value.stream[1] = Denotes(graph, root)

C8_Witness ==
    /\ mode = "display" /\ ReturnedOk
    /\ graph.nodes[root] = "Mix"
    /\ \E m \in NodeIds :
          /\ <<root, "A", m>> \in graph.connections
          /\ graph.inputs[m].Frequency = EditedFrequency
          /\ result.value.stream[1].subs[1].frequency = EditedFrequency

(***************************************************************************)
(* C9.  On an acyclic graph a call of evaluate_node eventually returns,     *)
(* with a value or an error.                                                *)
(***************************************************************************)
C9_Terminates == (pc = "eval" /\ Acyclic(graph)) ~> Returned

C9_Witness ==
    /\ mode = "call" /\ Acyclic(graph) /\ Returned
    /\ Cardinality(DOMAIN outputs_cache) = 3

(***************************************************************************)
(* C10.  As claimed: if the root lies on or reaches a cycle of edges        *)
(* through inputs the arms read, evaluate_node never returns.               *)
(***************************************************************************)
C10_CycleNeverReturns ==
    (mode = "call" /\ ReachesCycle(graph, root)) => ~Returned

(***************************************************************************)
(* C10, amended.  If the root lies on or reaches such a cycle,              *)
(* evaluate_node never returns a value; it returns only when an input read  *)
(* before the recursion closes the cycle fails its downcast, and then it    *)
(* returns that error.  Once the recursion has re-entered a node that is    *)
(* still being evaluated, the call neither returns nor reports an error:    *)
(* it recurses until the stack is exhausted.                                *)
(***************************************************************************)
Reentered ==
    \E i, j \in 1..Len(stack) : i < j /\ stack[i].node_id = stack[j].node_id

C10_CycleNoValue ==
    mode = "call" =>
        /\ ReachesCycle(graph, root) =>
              /\ ~ReturnedOk
              /\ Returned => (result.err = "InvalidCast" /\ Mismatched # {})
        /\ Reentered => (pc \in {"eval", "overflow"} /\ ReachesCycle(graph, root))
        /\ pc = "overflow" => (Reentered /\ Len(stack) = MaxDepth)

C10_Witness == mode = "call" /\ pc = "overflow" /\ Reentered

(***************************************************************************)
(* C11.  Empty.next() returns None on the very first call: an Empty stream  *)
(* yields no sample at all.                                                 *)
(***************************************************************************)
C11_EmptyEndsAtOnce ==
    initial.kind = "Empty" =>
        /\ yields = 0
        /\ calls >= 1 => (~last.some /\ ended)

C11_Witness == initial.kind = "Empty" /\ calls = 1 /\ ~last.some

(***************************************************************************)
(* C12.  The Silence stream of the node catalogue (the value evaluating a   *)
(* Silence node returns) yields the sample 0 on every call of next(),       *)
(* however many calls are made, and never ends; on the first call already   *)
(* it differs from Empty.                                                   *)
(***************************************************************************)
C12_SilenceNeverEnds ==
    initial = Template("Silence") =>
        /\ yields = calls /\ ~ended /\ ~crashed
        /\ calls >= 1 => (last.some /\ last.sample = <<"zero">>)
        /\ StreamNext(stream).some /\ ~StreamNext(Template("Empty")).some

C12_Witness == initial = Template("Silence") /\ calls = MaxCalls /\ last.some

(***************************************************************************)
(* C13.  A Mix, Add or Multiply yields exactly min(len(A), len(B)) samples  *)
(* and returns None on the next call: it ends at the first call at which    *)
(* either operand has ended.                                                *)
(***************************************************************************)
Infinite == MaxCalls + 1

\* The samples s yields before its first None, Infinite when it yields on
\* every one of k calls.
RECURSIVE StreamLength(_, _)
StreamLength(s, k) ==
    IF k = 0 THEN Infinite
    ELSE LET r == StreamNext(s)
         IN IF ~r.some THEN 0
            ELSE LET l == StreamLength(r.stream, k - 1)
                 IN IF l = Infinite THEN Infinite ELSE 1 + l

Min(a, b) == IF a <= b THEN a ELSE b

Combinators == {"Mix", "Add", "Multiply"}

OperandLength(i) == StreamLength(initial.subs[i], Infinite)

C13_EndsAtShorterOperand ==
    (initial.kind \in Combinators /\ ~crashed) =>
        LET m == Min(OperandLength(1), OperandLength(2))
        IN m < Infinite =>
              /\ yields = Min(calls, m)
              /\ ended <=> calls > m

C13_Witness ==
    /\ initial.kind = "Multiply"
    /\ OperandLength(1) = Infinite
    /\ OperandLength(2) < Infinite
    /\ calls = OperandLength(2) + 1
    /\ ended

(***************************************************************************)
(* C14.  End to end: a Sine node of Frequency 440 feeds input "A" of a Mix  *)
(* node whose "p" is 0.5 and whose input "B" is unconnected.  The pipeline  *)
(* evaluate_node returns for the Mix node yields a sample on every call,    *)
(* and the n-th is 0.5 times the n-th sample of the sine, the unconnected   *)
(* input contributing zeros.                                                *)
(***************************************************************************)
C14_Scenario ==
    /\ mode = "call" /\ ReturnedOk
    /\ graph.nodes[root] = "Mix"
    /\ graph.inputs[root].p = MixDefaultP
    /\ connection(graph, root, "B") = 0
    /\ LET m == connection(graph, root, "A")
       IN /\ m # 0
          /\ graph.nodes[m] = "SineWave"
          /\ connection(graph, m, "Frequency") = 0
          /\ graph.inputs[m].Frequency = SineDefaultFrequency

C14_MixOfSineAndSilence ==
    C14_Scenario =>
        /\ yielded = pulls
        /\ LET r == StreamNext(result.value.stream[1])
           IN /\ r.some
              /\ r.sample = <<"mix", MixDefaultP,
                              <<"sin", SineDefaultFrequency, pulls>>,
                              <<"zero">>>>

(***************************************************************************)
(* C15, as claimed.  Envelope.next() never returns None, whatever its       *)
(* underlying stream does, and every call pulls the underlying stream       *)
(* exactly once, also after the gain has come down to 0.                    *)
(***************************************************************************)
C15_EnvelopeNeverEnds ==
    initial.kind = "Envelope" =>
        /\ ~ended
        /\ yields = calls
        /\ stream.subs[1] = Advance(initial.subs[1], calls)

(***************************************************************************)
(* C15, amended.  An Envelope never ends by itself: a call of next()        *)
(* returns None exactly when its pull of the underlying stream returns      *)
(* None, so the envelope is as long as the stream under it; and every call  *)
(* that returns has pulled the underlying stream exactly once, also after   *)
(* the gain has come down to 0.                                             *)
(***************************************************************************)
C15_EnvelopeFollowsStream ==
    initial.kind = "Envelope" =>
        LET len == StreamLength(initial.subs[1], Infinite)
        IN /\ stream.subs[1] = Advance(initial.subs[1], calls)
           /\ yields = Min(calls, len)
           /\ ended <=> calls > len
           /\ calls >= 1 => (last.some <=> calls <= len)

C15_Witness ==
    /\ initial.kind = "Envelope"
    /\ initial.subs[1].kind = "SineWave"
    /\ calls = initial.env.ad + initial.env.dd + initial.env.sd
               + initial.env.rd + 2
    /\ yields = calls
    /\ last.sample[3][1] = 0
    /\ stream.subs[1].current_sample = calls

(***************************************************************************)
(* C16.  The gain of an Envelope with positive durations is piecewise       *)
(* linear in the sample time t: 0 at t = 0, rising linearly to the level a  *)
(* at t = ad, falling linearly to s at t = ad + dd, s through the sustain,  *)
(* falling linearly from there, and 0 at every t >= ad + dd + sd + rd.      *)
(***************************************************************************)
\* The counter value the last returned call computed t from.
LastIndex == (calls - 1) % CounterModulus

C16_EnvelopeBreakpoints ==
    (initial.kind = "Envelope" /\ calls >= 1 /\ last.some) =>
        LET e == initial.env
            n == LastIndex
            num == last.sample[3][1]
            den == last.sample[3][2]
            d == e.ad + e.dd
            r == d + e.sd
        IN /\ den > 0
           /\ n = 0 => num = 0
           /\ n = e.ad => num = e.a * den
           /\ n = d => num = e.s * den
           /\ (d <= n /\ n < r) => num = e.s * den
           /\ n >= r + e.rd => num = 0
           /\ n < e.ad => num * e.ad = e.a * n * den
           /\ (e.ad <= n /\ n < d) =>
                 num * e.dd = (e.a * e.dd - (e.a - e.s) * (n - e.ad)) * den
           /\ (r <= n /\ n < r + e.rd) =>
                 num * e.rd = e.s * (r + e.rd - n) * den

C16_Witness ==
    /\ initial.kind = "Envelope" /\ last.some
    /\ calls - 1 = initial.env.ad + initial.env.dd + initial.env.sd
                   + initial.env.rd
    /\ initial.env.ad > 1 /\ initial.env.rd > 1
    /\ last.sample[3][1] = 0

(***************************************************************************)
(* C17.  ModulatedSineWave.next() pulls its modulator exactly once on each  *)
(* call, returns a sample exactly when the modulator yielded one and None   *)
(* exactly when the modulator has ended: the stream is as long as its       *)
(* modulator, and the catalogue's modulated wave, whose modulator is Empty, *)
(* yields nothing.                                                          *)
(***************************************************************************)
C17_FollowsModulator ==
    initial.kind = "ModulatedSineWave" =>
        LET len == StreamLength(initial.subs[1], Infinite)
        IN /\ stream.subs[1] = Advance(initial.subs[1], calls)
           /\ yields = Min(calls, len)
           /\ ended <=> calls > len
           /\ Len(stream.acc) = yields
           /\ initial.subs[1] = EmptyNew => yields = 0

C17_Witness ==
    /\ initial.kind = "ModulatedSineWave"
    /\ initial.subs[1].kind = "SineWave"
    /\ calls = 3 /\ yields = 3
    /\ stream.subs[1].current_sample = 3

(***************************************************************************)
(* C18.  For Sine, Square, Triangle, Sawtooth and Perlin every call of      *)
(* next() returns a sample and moves the counter on by one: the k-th call   *)
(* uses the index k - 1, for every k; the 32-bit counter makes no call      *)
(* fail, never ends the stream and never brings back an earlier index.      *)
(***************************************************************************)
C18_CounterNeverFails ==
    initial \in Generators =>
        /\ ~crashed /\ ~ended
        /\ yields = calls
        /\ calls >= 1 => (last.some /\ last.sample[3] = calls - 1)

(***************************************************************************)
(* C19.  The end of a stream is permanent: once next() has returned None,   *)
(* every later call of next() on the same value returns None as well.       *)
(***************************************************************************)
C19_EndIsPermanent == ended => (~last.some /\ ~crashed)

(***************************************************************************)
(* C20.  Whatever SetActiveNode and ClearActiveNode responses have been     *)
(* handled, the sink holds at most one pipeline: an activation skips the    *)
(* pipeline that is playing and appends at most one, so that right after it *)
(* the sink holds the new pipeline, not yet played, or nothing.             *)
(***************************************************************************)
C20_AtMostOnePipeline ==
    /\ Len(sink) <= 1
    /\ (mode = "activate" /\ pc = "display") =>
          sink \in {<<>>, <<SinkEntry(StreamOf(result.value))>>}

C20_Witness ==
    /\ mode = "activate" /\ pc = "display"
    /\ active_node = 2
    /\ graph.nodes[1] = "SineWave"
    /\ graph.inputs[1].Frequency = SineDefaultFrequency
    /\ graph.inputs[2].Frequency = EditedFrequency
    /\ sink = <<SinkEntry(set_frequency(SineWaveNew, EditedFrequency))>>

(***************************************************************************)
(* C21.  At the end of every update active_node is None or a node that is   *)
(* still in the graph: when the active node has been deleted, the update    *)
(* resets active_node to None, and no evaluation of a node that is not in   *)
(* the graph is started.                                                    *)
(***************************************************************************)
C21_ActiveNodeInGraph ==
    /\ pc = "idle" => (active_node = 0 \/ InGraph(graph, active_node))
    /\ pc \in {"eval", "done"} =>
          /\ InGraph(graph, root)
          /\ \A n \in OnStack(stack) : InGraph(graph, n)

C21_Witness ==
    /\ pc = "idle" /\ active_node = 0
    /\ root # 0 /\ ~InGraph(graph, root)
    /\ mode = "display"
    /\ sink # <<>>

(***************************************************************************)
(* C22.  Whenever active_node is None at the end of an update, no pipeline  *)
(* is playing in the sink: clearing the active node, by a ClearActiveNode   *)
(* response or by deleting the node, also stops or empties the sink.        *)
(***************************************************************************)
C22_NoActiveNodeNoSound == (pc = "idle" /\ active_node = 0) => sink = <<>>

====
